---- MODULE Spec2Model ----
(***************************************************************************)
(* Model of match_my_resume.py: a Streamlit script that reads uploaded PDF *)
(* resumes, extracts labelled fields with regular expressions, classifies  *)
(* each resume with an ordered chain of keyword rules, partitions the      *)
(* records into selected / rejected and, on a button click, mails every    *)
(* candidate that has an address.                                          *)
(*                                                                         *)
(* Text is modelled as a sequence of one-character strings, so that the    *)
(* regular expressions are evaluated character by character as Python's re *)
(* module evaluates them.                                                  *)
(***************************************************************************)
EXTENDS Integers, Sequences, FiniteSets

(***************************************************************************)
(* Bounds of the model.                                                    *)
(***************************************************************************)
MaxDocs == 3        \* documents in one upload
MaxRuns == 2        \* script runs (Streamlit reruns) in one session
MaxChunks == 3      \* text fragments in an input of the helper functions

(***************************************************************************)
(* Characters.                                                             *)
(***************************************************************************)
NL == "\n"
TAB == "\t"
CR == "\r"

UpperCase == <<"A","B","C","D","E","F","G","H","I","J","K","L","M",
               "N","O","P","Q","R","S","T","U","V","W","X","Y","Z">>
LowerCase == <<"a","b","c","d","e","f","g","h","i","j","k","l","m",
               "n","o","p","q","r","s","t","u","v","w","x","y","z">>
UpperSet == {UpperCase[n] : n \in 1..26}
LowerSet == {LowerCase[n] : n \in 1..26}
Digits == <<"0","1","2","3","4","5","6","7","8","9">>
DigitSet == {Digits[n] : n \in 1..10}

\* the position of character c in the sequence of characters chars
IndexIn(chars, c) == CHOOSE n \in 1..Len(chars) : chars[n] = c

\* str.lower() / re.IGNORECASE folding of one character
LowerChar(c) == IF c \in UpperSet THEN LowerCase[IndexIn(UpperCase, c)] ELSE c
UpperChar(c) == IF c \in LowerSet THEN UpperCase[IndexIn(LowerCase, c)] ELSE c
\* int() of one decimal digit
DigitValue(c) == IndexIn(Digits, c) - 1
\* str.lower()
RECURSIVE Lower(_)
Lower(s) ==
    IF s = <<>> THEN <<>> ELSE <<LowerChar(Head(s))>> \o Lower(Tail(s))

\* the regex class \s, the class \d, and the class \w that decides \b
IsSpace(c) == c \in {" ", NL, TAB, CR}
IsDigit(c) == c \in DigitSet
IsWordChar(c) == c \in UpperSet \cup LowerSet \cup DigitSet \cup {"_"}
IsAlpha(c) == c \in UpperSet \cup LowerSet

Min(S) == CHOOSE x \in S : \A y \in S : x <= y

(***************************************************************************)
(* Regular-expression building blocks.                                     *)
(***************************************************************************)
\* the literal lit matches s at position p
MatchAt(s, p, lit) ==
    /\ p >= 1
    /\ p + Len(lit) - 1 <= Len(s)
    /\ \A n \in 1..Len(lit) : s[p + n - 1] = lit[n]

\* greedy \s* from position p: the first position >= p that holds no whitespace
RECURSIVE SkipSpace(_, _)
SkipSpace(s, p) ==
    IF p <= Len(s) /\ IsSpace(s[p]) THEN SkipSpace(s, p + 1) ELSE p

\* greedy .* from position p: the first position >= p that holds a newline
RECURSIVE LineEnd(_, _)
LineEnd(s, p) ==
    IF p <= Len(s) /\ s[p] # NL THEN LineEnd(s, p + 1) ELSE p

\* greedy \d+ from position p: the first position >= p that holds no digit
RECURSIVE DigitsEnd(_, _)
DigitsEnd(s, p) ==
    IF p <= Len(s) /\ IsDigit(s[p]) THEN DigitsEnd(s, p + 1) ELSE p

\* \b at the gap before position p (between s[p-1] and s[p])
WordBoundary(s, p) ==
    LET before == p - 1 >= 1 /\ p - 1 <= Len(s) /\ IsWordChar(s[p - 1])
        after == p >= 1 /\ p <= Len(s) /\ IsWordChar(s[p])
    IN  before # after

\* re.search of a word-bounded alternation of the terms finds a match in s
SearchTerms(terms, s) ==
    \E k \in terms : \E p \in 1..Len(s) :
        /\ MatchAt(s, p, k)
        /\ WordBoundary(s, p)
        /\ WordBoundary(s, p + Len(k))

\* str.strip()
RECURSIVE StripLeft(_)
StripLeft(s) ==
    IF s # <<>> /\ IsSpace(Head(s)) THEN StripLeft(Tail(s)) ELSE s
RECURSIVE StripRight(_)
StripRight(s) ==
    IF s # <<>> /\ IsSpace(s[Len(s)]) THEN StripRight(SubSeq(s, 1, Len(s) - 1)) ELSE s
Strip(s) == StripRight(StripLeft(s))

\* int() of a run of decimal digits
RECURSIVE ParseInt(_)
ParseInt(ds) ==
    IF ds = <<>> THEN 0
    ELSE 10 * ParseInt(SubSeq(ds, 1, Len(ds) - 1)) + DigitValue(ds[Len(ds)])

(***************************************************************************)
(* extract_field: a case-insensitive search for the label and a colon,     *)
(* then greedy whitespace, then the captured rest of the line.             *)
(***************************************************************************)
FieldHits(text, field_name) ==
    LET low == Lower(text)
        pat == Lower(field_name \o <<":">>)
    IN  {p \in 1..Len(text) : MatchAt(low, p, pat)}

extract_field(text, field_name) ==
    LET hits == FieldHits(text, field_name)
    IN  IF hits = {} THEN <<>>
        ELSE LET p == Min(hits)
                 a == SkipSpace(text, p + Len(field_name) + 1)
                 e == LineEnd(text, a)
             IN  Strip(SubSeq(text, a, e - 1))

(***************************************************************************)
(* extract_experience: a case-insensitive search for the label, greedy     *)
(* whitespace and a captured run of one or more digits.                    *)
(***************************************************************************)
ExperienceLabel == <<"e","x","p","e","r","i","e","n","c","e","_","y","e","a","r","s",":">>

ExperienceHits(text) ==
    LET low == Lower(text)
    IN  {p \in 1..Len(text) :
            /\ MatchAt(low, p, ExperienceLabel)
            /\ LET a == SkipSpace(text, p + Len(ExperienceLabel))
               IN  a <= Len(text) /\ IsDigit(text[a])}

\* mutant: a missing value reported as -1 instead of 0
extract_experience_sentinel(text) ==
    LET hits == ExperienceHits(text)
    IN  IF hits = {} THEN -1
        ELSE LET p == Min(hits)
                 a == SkipSpace(text, p + Len(ExperienceLabel))
                 e == DigitsEnd(text, a)
             IN  ParseInt(SubSeq(text, a, e - 1))

extract_experience(text) ==
    LET hits == ExperienceHits(text)
    IN  IF hits = {} THEN 0
        ELSE LET p == Min(hits)
                 a == SkipSpace(text, p + Len(ExperienceLabel))
                 e == DigitsEnd(text, a)
             IN  ParseInt(SubSeq(text, a, e - 1))

(***************************************************************************)
(* determine_title: the ordered if / elif chain over the keyword rules.    *)
(***************************************************************************)
DataScienceTerms ==
    { <<"d","a","t","a"," ","s","c","i","e","n","c","e">>,
      <<"p","a","n","d","a","s">>,
      <<"m","a","t","p","l","o","t","l","i","b">>,
      <<"d","a","t","a"," ","a","n","a","l","y","s","t">> }
MachineLearningTerms ==
    { <<"m","a","c","h","i","n","e"," ","l","e","a","r","n","i","n","g">>,
      <<"r","e","g","r","e","s","s","i","o","n">>,
      <<"c","l","a","s","s","i","f","i","c","a","t","i","o","n">>,
      <<"s","k","l","e","a","r","n">> }
FullStackTerms ==
    { <<"f","u","l","l"," ","s","t","a","c","k">>,
      <<"r","e","a","c","t">>,
      <<"n","o","d","e",".","j","s">>,
      <<"f","r","o","n","t","e","n","d">>,
      <<"b","a","c","k","e","n","d">> }
WebDesignTerms ==
    { <<"w","e","b"," ","d","e","s","i","g","n">>,
      <<"h","t","m","l">>,
      <<"c","s","s">>,
      <<"j","a","v","a","s","c","r","i","p","t">>,
      <<"w","e","b"," ","d","e","s","i","g","n","e","r">> }
AITerms ==
    { <<"a","r","t","i","f","i","c","i","a","l"," ","i","n","t","e","l","l","i","g","e","n","c","e">>,
      <<"d","e","e","p"," ","l","e","a","r","n","i","n","g">> }
UIUXTerms ==
    { <<"u","i","/","u","x">>,
      <<"f","i","g","m","a">>,
      <<"a","d","o","b","e"," ","x","d">>,
      <<"u","s","e","r"," ","i","n","t","e","r","f","a","c","e">>,
      <<"u","s","e","r"," ","e","x","p","e","r","i","e","n","c","e">> }
GameDevTerms ==
    { <<"g","a","m","e"," ","d","e","v">>,
      <<"u","n","i","t","y">>,
      <<"u","n","r","e","a","l">>,
      <<"g","a","m","e"," ","d","e","s","i","g","n">>,
      <<"g","a","m","e"," ","d","e","v","e","l","o","p","e","r">> }

\* f"{skills_text} {projects_text}".lower()
Combined(skills_text, projects_text) ==
    Lower(skills_text \o <<" ">> \o projects_text)

\* mutant: the web-design rule tested before the full-stack rule
determine_title_reordered(skills_text, projects_text) ==
    LET combined == Combined(skills_text, projects_text)
    IN  IF SearchTerms(DataScienceTerms, combined) THEN "Data Scientist"
        ELSE IF SearchTerms(MachineLearningTerms, combined) THEN "Machine Learning Engineer"
        ELSE IF SearchTerms(WebDesignTerms, combined) THEN "Web Designer"
        ELSE IF SearchTerms(FullStackTerms, combined) THEN "Full Stack Developer"
        ELSE IF SearchTerms(AITerms, combined) THEN "AI Engineer"
        ELSE IF SearchTerms(UIUXTerms, combined) THEN "UI/UX Designer"
        ELSE IF SearchTerms(GameDevTerms, combined) THEN "Game Designer"
        ELSE "Unknown"

determine_title(skills_text, projects_text) ==
    LET combined == Combined(skills_text, projects_text)
    IN  IF SearchTerms(DataScienceTerms, combined) THEN "Data Scientist"
        ELSE IF SearchTerms(MachineLearningTerms, combined) THEN "Machine Learning Engineer"
        ELSE IF SearchTerms(FullStackTerms, combined) THEN "Full Stack Developer"
        ELSE IF SearchTerms(WebDesignTerms, combined) THEN "Web Designer"
        ELSE IF SearchTerms(AITerms, combined) THEN "AI Engineer"
        ELSE IF SearchTerms(UIUXTerms, combined) THEN "UI/UX Designer"
        ELSE IF SearchTerms(GameDevTerms, combined) THEN "Game Designer"
        ELSE "Unknown"

(***************************************************************************)
(* The name fallback: uploaded_file.name.replace(".pdf", "").title()       *)
(***************************************************************************)
PdfSuffix == <<".","p","d","f">>
NameLabel == <<"N","a","m","e">>
SkillsLabel == <<"r","e","s","u","m","e","_","s","k","i","l","l","s">>
ProjectsLabel == <<"P","r","o","j","e","c","t","s">>
EmailLabel == <<"E","m","a","i","l">>

\* str.replace(old, ""): every occurrence of old, left to right, removed
RECURSIVE RemoveAll(_, _)
RemoveAll(s, old) ==
    IF s = <<>> THEN <<>>
    ELSE IF MatchAt(s, 1, old) THEN RemoveAll(SubSeq(s, Len(old) + 1, Len(s)), old)
    ELSE <<Head(s)>> \o RemoveAll(Tail(s), old)

\* str.title(): a letter that follows a letter is lower-cased, any other letter
\* is upper-cased
RECURSIVE TitleFrom(_, _)
TitleFrom(s, n) ==
    IF n > Len(s) THEN <<>>
    ELSE <<IF n > 1 /\ IsAlpha(s[n - 1]) THEN LowerChar(s[n]) ELSE UpperChar(s[n])>>
         \o TitleFrom(s, n + 1)
Title(s) == TitleFrom(s, 1)

FallbackName(file_name) == Title(RemoveAll(file_name, PdfSuffix))

(***************************************************************************)
(* Uploaded documents.  A document is its file name, the text of its pages *)
(* and the place where reading it raises: fail_at = 0 when fitz.open       *)
(* raises, k in 1..Len(pages) when get_text of page k raises, and          *)
(* Len(pages) + 1 when the document reads to the end.                      *)
(***************************************************************************)
DocAlice ==
    [name |-> <<"a","l","i","c","e",".","p","d","f">>,
     pages |-> << <<"N","a","m","e",":"," ","A","l","i","c","e",NL,"r","e","s","u","m","e","_","s","k","i","l","l","s",":"," ","P","a","n","d","a","s",","," ","R","e","a","c","t",NL,"e","x","p","e","r","i","e","n","c","e","_","y","e","a","r","s",":"," ","5",NL,"E","m","a","i","l",":"," ","a","@","x",".","i","o">> >>,
     fail_at |-> 2]
DocBob ==
    [name |-> <<"b","o","b","_","r","a","y",".","p","d","f">>,
     pages |-> << <<"r","e","s","u","m","e","_","s","k","i","l","l","s",":"," ","u","n","i","t","y","3","d",NL,"P","r","o","j","e","c","t","s",":"," ","U","n","i","t","y"," ","g","a","m","e">> >>,
     fail_at |-> 2]
DocCy ==
    [name |-> <<"c","y",".","p","d","f">>,
     pages |-> << <<"N","a","m","e",":"," ","C","y",NL,"E","m","a","i","l",":"," ","c","@","x",".","i","o"," ">> >>,
     fail_at |-> 2]
DocDee ==
    [name |-> <<"d","e","e",".","p","d","f">>,
     pages |-> << <<"N","a","m","e",":"," ","D","e","e",NL,"r","e","s","u","m","e","_","s","k","i","l","l","s",":"," ","h","t","m","l">> >>,
     fail_at |-> 0]
DocEve ==
    [name |-> <<"e","v","e",".","p","d","f">>,
     pages |-> << <<"r","e","s","u","m","e","_","s","k","i","l","l","s",":"," ","r","e","a","c","t",NL,"E","M","A","I","L",":"," ","e","@","x",".","i","o",NL>>,
                  <<"N","a","m","e",":"," ","E","v","e"," ","A",NL,"e","x","p","e","r","i","e","n","c","e","_","y","e","a","r","s",":"," ","3">> >>,
     fail_at |-> 2]
Documents == {DocAlice, DocBob, DocCy, DocDee, DocEve}

\* the uploads of at most MaxDocs documents, in upload order
RECURSIVE SeqsUpTo(_, _)
SeqsUpTo(S, n) ==
    IF n = 0 THEN {<<>>}
    ELSE LET shorter == SeqsUpTo(S, n - 1)
         IN  shorter \cup {Append(q, x) : q \in shorter, x \in S}

Uploads == SeqsUpTo(Documents, MaxDocs)

\* st.secrets: the sender address and password, "" when the key is missing
SecretStores ==
    { [EMAIL |-> "hr@corp.io", PASSWORD |-> "app-password"],
      [EMAIL |-> "", PASSWORD |-> "app-password"],
      [EMAIL |-> "hr@corp.io", PASSWORD |-> ""] }

(***************************************************************************)
(* extract_text_from_pdf: the text of the pages read before the reading    *)
(* raised, and whether it raised (st.error is then shown).                 *)
(***************************************************************************)
RECURSIVE PagesText(_, _)
PagesText(pages, n) ==
    IF n = 0 THEN <<>> ELSE PagesText(pages, n - 1) \o pages[n]

extract_text_from_pdf(uploaded_pdf) ==
    LET n == Len(uploaded_pdf.pages)
        raised == uploaded_pdf.fail_at <= n
        read == IF uploaded_pdf.fail_at = 0 THEN 0
                ELSE IF raised THEN uploaded_pdf.fail_at - 1
                ELSE n
    IN  [text |-> PagesText(uploaded_pdf.pages, read), raised |-> raised]

(***************************************************************************)
(* The record of one document (resume_data).                               *)
(***************************************************************************)
\* mutant: no fallback to the file name
NameOf_no_fallback(text, file_name) ==
    extract_field(text, NameLabel)

NameOf(text, file_name) ==
    LET found == extract_field(text, NameLabel)
    IN  IF found # <<>> THEN found ELSE FallbackName(file_name)

ResumeData(text, file_name) ==
    LET skills == extract_field(text, SkillsLabel)
        projects == extract_field(text, ProjectsLabel)
    IN  [name |-> NameOf(text, file_name),
         resume_skills |-> skills,
         projects |-> projects,
         experience_years |-> extract_experience(text),
         email |-> extract_field(text, EmailLabel),
         resume_title |-> determine_title(skills, projects)]

\* mutant: the list of the previous run kept
NewRecordList_kept(previous) == previous
\* "all_resume_data = []" at the start of every run
NewRecordList(previous) == <<>>

\* mutant: the record put in front
AppendRecord_front(records, resume_data) == <<resume_data>> \o records
\* all_resume_data.append(resume_data)
AppendRecord(records, resume_data) == Append(records, resume_data)

(***************************************************************************)
(* The partition of resume_df.  A row keeps its index in resume_df.        *)
(***************************************************************************)
\* resume_df[mask]: the rows whose mask entry is true, in order
RECURSIVE RowsWhere(_, _, _)
RowsWhere(resume_df, mask, n) ==
    IF n = 0 THEN <<>>
    ELSE LET rest == RowsWhere(resume_df, mask, n - 1)
         IN  IF mask[n]
             THEN Append(rest, [index |-> n, data |-> resume_df[n]])
             ELSE rest

IsSelected(resume_data) == resume_data.resume_title # "Unknown"
\* mutant: the sentinel compared in the wrong case
IsRejected_lowercase(resume_data) == resume_data.resume_title = "unknown"
IsRejected(resume_data) == resume_data.resume_title = "Unknown"

SelectedRows(resume_df) ==
    RowsWhere(resume_df, [k \in 1..Len(resume_df) |-> IsSelected(resume_df[k])],
              Len(resume_df))
RejectedRows(resume_df) ==
    RowsWhere(resume_df, [k \in 1..Len(resume_df) |-> IsRejected(resume_df[k])],
              Len(resume_df))

(***************************************************************************)
(* Notification.                                                           *)
(***************************************************************************)
SelectedSubject == "Congratulations! You've Been Selected"
RejectedSubject == "Application Update"
\* (the body's apostrophe is the typographic one in the source)
SelectedBody(df_row) ==
    <<"Hi ", df_row.data.name, ", you've been selected for the role: ",
      df_row.data.resume_title, "!">>
RejectedBody(df_row) ==
    <<"Sorry, your profile is not matching this job. We will meet soon.">>

\* mutant: the guard never skips
NoAddress_never(df_row) == FALSE
\* the guard "if not row['email']: continue"
NoAddress(df_row) == df_row.data.email = <<>>

\* send_email: what it returns, whether the message was handed to the SMTP
\* transport, and what it shows.  smtp_ok is the outcome of the transport.
send_email(store, recipient_email, subject, body, smtp_ok) ==
    IF store.EMAIL = "" \/ store.PASSWORD = ""
    THEN [ret |-> FALSE, handed |-> FALSE, shown |-> "error_credentials"]
    ELSE IF smtp_ok
    THEN [ret |-> TRUE, handed |-> TRUE, shown |-> "none"]
    ELSE [ret |-> FALSE, handed |-> TRUE, shown |-> "warning_sending"]

\* mutant: every attempt counted
Counted_always(sent, ret) == sent + 1
\* "if send_email(...): sent += 1"
Counted(sent, ret) == IF ret THEN sent + 1 ELSE sent

(***************************************************************************)
(* Inputs of the helper functions: fragments of text put end to end.       *)
(***************************************************************************)
TextChunks ==
    << <<"N","a","m","e",":"," ","A","l","i","c","e">>,
       <<NL>>,
       <<"E","M","A","I","L",":">>,
       <<" ","a","@","x",".","i","o"," ">>,
       <<"n","a","m","e",":"," ","B","o","b">>,
       <<"e","x","p","e","r","i","e","n","c","e","_","y","e","a","r","s",":">>,
       <<" ","1","2">>,
       <<"E","x","p","e","r","i","e","n","c","e","_","Y","e","a","r","s",":"," ","7","y","r","s">> >>

WordChunks ==
    << <<"P","a","n","d","a","s">>,
       <<" ">>,
       <<"d","a","t","a">>,
       <<"s","c","i","e","n","c","e">>,
       <<"s","k","l","e","a","r","n">>,
       <<"r","e","a","c","t">>,
       <<"C","S","S",",">>,
       <<"d","e","e","p"," ","l","e","a","r","n","i","n","g">>,
       <<"u","i","/","u","x">>,
       <<"u","n","i","t","y">> >>

RECURSIVE Flatten(_, _)
Flatten(chunks, ids) ==
    IF ids = <<>> THEN <<>> ELSE chunks[Head(ids)] \o Flatten(chunks, Tail(ids))

FnInputs ==
    {[of |-> "text", ids |-> q] : q \in SeqsUpTo(1..Len(TextChunks), MaxChunks)}
    \cup {[of |-> "words", ids |-> q] : q \in SeqsUpTo(1..Len(WordChunks), MaxChunks)}

(***************************************************************************)
(* State.                                                                  *)
(***************************************************************************)
VARIABLES
    uploaded_files,     \* the value of st.file_uploader
    secrets,            \* st.secrets
    runs,               \* script runs started so far
    button,             \* this run was triggered by a click on "Send Emails"
    pc,                 \* where the script is
    i,                  \* the position of uploaded_file in uploaded_files
    resume_text,        \* the text of the document being processed
    all_resume_data,    \* the record list
    selected_df,        \* the rows of resume_df whose title is not "Unknown"
    rejected_df,        \* the rows of resume_df whose title is "Unknown"
    row,                \* the position of the dispatch loop in its frame
    selected_sent,
    rejected_sent,
    send_log,           \* the calls of send_email made by this run, in order
    shown,              \* what this run has shown: errors, warnings, the report
    last_resume_data,   \* history: the record list the previous run ended with
    fn_input,           \* the argument of a helper function under test
    fn_result           \* the call made on fn_input and what it returned

vars == <<uploaded_files, secrets, runs, button, pc, i, resume_text,
          all_resume_data, selected_df, rejected_df, row, selected_sent,
          rejected_sent, send_log, shown, last_resume_data, fn_input, fn_result>>

session == <<uploaded_files, secrets>>
helpers == <<fn_input, fn_result>>
script == <<runs, button, pc, i, resume_text, all_resume_data, selected_df,
            rejected_df, row, selected_sent, rejected_sent, send_log, shown,
            last_resume_data>>

NoCall == [op |-> "none"]

Blank ==
    /\ runs = 0
    /\ button = FALSE
    /\ pc = "idle"
    /\ i = 0
    /\ resume_text = <<>>
    /\ all_resume_data = <<>>
    /\ selected_df = <<>>
    /\ rejected_df = <<>>
    /\ row = 0
    /\ selected_sent = 0
    /\ rejected_sent = 0
    /\ send_log = <<>>
    /\ shown = <<>>
    /\ last_resume_data = <<>>

Init ==
    /\ uploaded_files \in Uploads
    /\ secrets \in SecretStores
    /\ Blank
    /\ fn_input = [of |-> "none", ids |-> <<>>]
    /\ fn_result = NoCall

(***************************************************************************)
(* One run of the script.                                                  *)
(***************************************************************************)
\* The script starts (lines 1-136): a first run, a rerun, or the rerun that a
\* click on "Send Emails" triggers; the button exists only once a run with
\* uploaded documents has rendered it.
StartRun(click) ==
    /\ pc = "idle"
    /\ runs < MaxRuns
    /\ click => (runs >= 1 /\ uploaded_files # <<>>)
    /\ runs' = runs + 1
    /\ button' = click
    /\ last_resume_data' = all_resume_data
    /\ all_resume_data' = NewRecordList(all_resume_data)
    /\ resume_text' = <<>>
    /\ selected_df' = <<>>
    /\ rejected_df' = <<>>
    /\ row' = 0
    /\ selected_sent' = 0
    /\ rejected_sent' = 0
    /\ send_log' = <<>>
    /\ shown' = <<>>
    /\ IF uploaded_files # <<>>
       THEN pc' = "extract" /\ i' = 1
       ELSE pc' = "idle" /\ i' = 0
    /\ UNCHANGED <<session, helpers>>

\* line 143
ExtractText ==
    /\ pc = "extract"
    /\ LET got == extract_text_from_pdf(uploaded_files[i])
       IN  /\ resume_text' = got.text
           /\ shown' = IF got.raised
                       THEN Append(shown, [kind |-> "error_reading_pdf", doc |-> i])
                       ELSE shown
    /\ pc' = "build"
    /\ UNCHANGED <<session, helpers, runs, button, i, all_resume_data,
                   selected_df, rejected_df, row, selected_sent, rejected_sent,
                   send_log, last_resume_data>>

\* lines 145-154, and the step of the for loop
BuildRecord ==
    /\ pc = "build"
    /\ all_resume_data' =
           AppendRecord(all_resume_data, ResumeData(resume_text, uploaded_files[i].name))
    /\ IF i < Len(uploaded_files)
       THEN i' = i + 1 /\ pc' = "extract"
       ELSE i' = i /\ pc' = "partition"
    /\ UNCHANGED <<session, helpers, runs, button, resume_text, selected_df,
                   rejected_df, row, selected_sent, rejected_sent, send_log,
                   shown, last_resume_data>>

\* lines 156-159, the display, and lines 206-208
Partition ==
    /\ pc = "partition"
    /\ selected_df' = SelectedRows(all_resume_data)
    /\ rejected_df' = RejectedRows(all_resume_data)
    /\ IF button
       THEN pc' = "send_selected" /\ row' = 1
       ELSE pc' = "idle" /\ row' = 0
    /\ UNCHANGED <<session, helpers, runs, button, i, resume_text,
                   all_resume_data, selected_sent, rejected_sent, send_log,
                   shown, last_resume_data>>

\* one call of send_email and what the loop body does with its result
Dispatch(frame, r, subject, body, sent, smtp_ok) ==
    LET res == send_email(secrets, r.data.email, subject, body, smtp_ok)
    IN  [log |-> Append(send_log,
                    [frame |-> frame, index |-> r.index, to |-> r.data.email,
                     subject |-> subject, body |-> body,
                     handed |-> res.handed, ret |-> res.ret]),
         shown |-> IF res.shown = "none" THEN shown
                   ELSE Append(shown, [kind |-> res.shown, doc |-> r.index]),
         sent |-> Counted(sent, res.ret)]

\* lines 210-216: one iteration of the loop over selected_df
SendSelected ==
    /\ pc = "send_selected"
    /\ IF row > Len(selected_df)
       THEN /\ pc' = "send_rejected"
            /\ row' = 1
            /\ UNCHANGED <<selected_sent, send_log, shown>>
       ELSE /\ pc' = pc
            /\ row' = row + 1
            /\ IF NoAddress(selected_df[row])
               THEN UNCHANGED <<selected_sent, send_log, shown>>
               ELSE \E smtp_ok \in BOOLEAN :
                      LET d == Dispatch("selected", selected_df[row], SelectedSubject,
                                        SelectedBody(selected_df[row]),
                                        selected_sent, smtp_ok)
                      IN  /\ send_log' = d.log
                          /\ shown' = d.shown
                          /\ selected_sent' = d.sent
    /\ UNCHANGED <<session, helpers, runs, button, i, resume_text,
                   all_resume_data, selected_df, rejected_df, rejected_sent,
                   last_resume_data>>

\* lines 218-224: one iteration of the loop over rejected_df
SendRejected ==
    /\ pc = "send_rejected"
    /\ IF row > Len(rejected_df)
       THEN /\ pc' = "report"
            /\ row' = 0
            /\ UNCHANGED <<rejected_sent, send_log, shown>>
       ELSE /\ pc' = pc
            /\ row' = row + 1
            /\ IF NoAddress(rejected_df[row])
               THEN UNCHANGED <<rejected_sent, send_log, shown>>
               ELSE \E smtp_ok \in BOOLEAN :
                      LET d == Dispatch("rejected", rejected_df[row], RejectedSubject,
                                        RejectedBody(rejected_df[row]),
                                        rejected_sent, smtp_ok)
                      IN  /\ send_log' = d.log
                          /\ shown' = d.shown
                          /\ rejected_sent' = d.sent
    /\ UNCHANGED <<session, helpers, runs, button, i, resume_text,
                   all_resume_data, selected_df, rejected_df, selected_sent,
                   last_resume_data>>

\* line 226
Report ==
    /\ pc = "report"
    /\ shown' = Append(shown, [kind |-> "success", selected |-> selected_sent,
                               rejected |-> rejected_sent])
    /\ pc' = "idle"
    /\ UNCHANGED <<session, helpers, runs, button, i, resume_text,
                   all_resume_data, selected_df, rejected_df, row,
                   selected_sent, rejected_sent, send_log, last_resume_data>>

Next ==
    \/ \E click \in BOOLEAN : StartRun(click)
    \/ ExtractText
    \/ BuildRecord
    \/ Partition
    \/ SendSelected
    \/ SendRejected
    \/ Report

Spec == Init /\ [][Next]_vars

\* The dispatch loops and the report are straight-line code of one run: once
\* started they run to the end.
FairSpec ==
    /\ Spec
    /\ WF_vars(SendSelected)
    /\ WF_vars(SendRejected)
    /\ WF_vars(Report)

(***************************************************************************)
(* The helper functions on their own, applied to the inputs above.         *)
(***************************************************************************)
FnText == Flatten(TextChunks, fn_input.ids)

InitFn ==
    /\ uploaded_files = <<>>
    /\ secrets \in {s \in SecretStores : s.EMAIL # "" /\ s.PASSWORD # ""}
    /\ Blank
    /\ fn_input \in FnInputs
    /\ fn_result = NoCall

CallExtractField(field_name) ==
    /\ fn_input.of = "text"
    /\ fn_result = NoCall
    /\ fn_result' = [op |-> "extract_field", field_name |-> field_name,
                     ret |-> extract_field(FnText, field_name)]
    /\ UNCHANGED <<session, script, fn_input>>

CallExtractExperience ==
    /\ fn_input.of = "text"
    /\ fn_result = NoCall
    /\ fn_result' = [op |-> "extract_experience", ret |-> extract_experience(FnText)]
    /\ UNCHANGED <<session, script, fn_input>>

\* the first k fragments are the skills, the others the projects
CallDetermineTitle(k) ==
    /\ fn_input.of = "words"
    /\ fn_result = NoCall
    /\ k <= Len(fn_input.ids)
    /\ LET skills == Flatten(WordChunks, SubSeq(fn_input.ids, 1, k))
           projects == Flatten(WordChunks, SubSeq(fn_input.ids, k + 1, Len(fn_input.ids)))
       IN  fn_result' = [op |-> "determine_title", skills |-> skills,
                         projects |-> projects,
                         ret |-> determine_title(skills, projects)]
    /\ UNCHANGED <<session, script, fn_input>>

NextFn ==
    \/ \E field_name \in {NameLabel, EmailLabel} : CallExtractField(field_name)
    \/ CallExtractExperience
    \/ \E k \in 0..MaxChunks : CallDetermineTitle(k)

SpecFn == InitFn /\ [][NextFn]_vars

(***************************************************************************)
(* Properties.                                                             *)
(***************************************************************************)
\* the category labels and their keyword rules, in the documented order
CategoryLabels ==
    <<"Data Scientist", "Machine Learning Engineer", "Full Stack Developer",
      "Web Designer", "AI Engineer", "UI/UX Designer", "Game Designer">>
CategoryTerms ==
    <<DataScienceTerms, MachineLearningTerms, FullStackTerms, WebDesignTerms,
      AITerms, UIUXTerms, GameDevTerms>>
TitleLabels == {CategoryLabels[r] : r \in 1..Len(CategoryLabels)} \cup {"Unknown"}

\* the rules whose keywords occur, as whole words, in the lower-cased
\* "skills projects"
MatchingRules(skills_text, projects_text) ==
    {r \in 1..Len(CategoryTerms) :
        SearchTerms(CategoryTerms[r], Combined(skills_text, projects_text))}

TitleCalled == fn_result.op = "determine_title"

\* C1: determine_title returns the label of the earliest rule, in the order
\* Data Scientist, Machine Learning Engineer, Full Stack Developer, Web
\* Designer, AI Engineer, UI/UX Designer, Game Designer, whose keywords occur in
\* the lower-cased "skills projects", also when several rules match, and
\* "Unknown" exactly when no rule matches (so for two empty inputs).
C1_FirstMatchWins ==
    TitleCalled =>
        LET matching == MatchingRules(fn_result.skills, fn_result.projects)
        IN  /\ matching # {} => fn_result.ret = CategoryLabels[Min(matching)]
            /\ matching = {} <=> fn_result.ret = "Unknown"
            /\ (fn_result.skills = <<>> /\ fn_result.projects = <<>>)
                   => fn_result.ret = "Unknown"

\* C1 witness: a text that satisfies a later rule and an earlier rule that is not
\* the first one, classified by the earlier rule
C1_Witness ==
    /\ TitleCalled
    /\ LET matching == MatchingRules(fn_result.skills, fn_result.projects)
       IN  /\ Cardinality(matching) >= 2
           /\ Min(matching) > 1
           /\ fn_result.ret = CategoryLabels[Min(matching)]

\* the characters after the first "label:" up to the end of that same line,
\* trimmed; empty when the text has no "label:"
SameLineRemainder(text, field_name) ==
    LET hits == FieldHits(text, field_name)
    IN  IF hits = {} THEN <<>>
        ELSE LET a == Min(hits) + Len(field_name) + 1
             IN  Strip(SubSeq(text, a, LineEnd(text, a) - 1))

\* C8: extract_field returns the trimmed characters that follow the first
\* case-insensitive occurrence of "label:" up to the end of that same line, and
\* the empty string when there is no occurrence.
C8_SameLineRemainder ==
    fn_result.op = "extract_field" =>
        fn_result.ret = SameLineRemainder(FnText, fn_result.field_name)

(***************************************************************************)
(* Properties of a run.                                                    *)
(***************************************************************************)
\* per document: the text its reading yields, the record of the text of its
\* first n pages, and the record of the text its reading yields
TextTable == {<<d, extract_text_from_pdf(d).text>> : d \in Documents}
TextOf(d) == (CHOOSE e \in TextTable : e[1] = d)[2]
PagesTable ==
    UNION {{<<d, n, ResumeData(PagesText(d.pages, n), d.name)>> : n \in 0..Len(d.pages)} :
              d \in Documents}
RecordOfPages(d, n) == (CHOOSE e \in PagesTable : e[1] = d /\ e[2] = n)[3]
RecordTable == {<<d, ResumeData(TextOf(d), d.name)>> : d \in Documents}
RecordOf(d) == (CHOOSE e \in RecordTable : e[1] = d)[2]

DocText(k) == TextOf(uploaded_files[k])
Raised(k) == uploaded_files[k].fail_at <= Len(uploaded_files[k].pages)
CannotOpen(k) == uploaded_files[k].fail_at = 0
FailsAtPage(k) == Raised(k) /\ ~CannotOpen(k)

\* this run has finished
RunDone == pc = "idle" /\ runs >= 1
\* the for loop over uploaded_files has ended in this run
AllProcessed ==
    \/ pc \in {"partition", "send_selected", "send_rejected", "report"}
    \/ RunDone /\ uploaded_files # <<>>
\* selected_df and rejected_df have been computed in this run
Partitioned ==
    \/ pc \in {"send_selected", "send_rejected", "report"}
    \/ RunDone /\ uploaded_files # <<>>
\* the "Send Emails" handler has run to its end in this run
Dispatched == RunDone /\ button

Indices(df) == {df[j].index : j \in 1..Len(df)}
Logged == {send_log[j].index : j \in 1..Len(send_log)}
Attempts(frame) == {j \in 1..Len(send_log) : send_log[j].frame = frame}
Succeeded(frame) == {j \in Attempts(frame) : send_log[j].ret}
WithAddress == {k \in 1..Len(all_resume_data) : all_resume_data[k].email # <<>>}
RecordFields ==
    {"name", "resume_skills", "projects", "experience_years", "email", "resume_title"}

\* the text holds "experience_years:", in any case, then whitespace or nothing,
\* then a digit
HasExperienceDigits(text) ==
    LET low == Lower(text)
    IN  \E p \in 1..Len(text) :
        /\ MatchAt(low, p, ExperienceLabel)
        /\ \E q \in (p + Len(ExperienceLabel))..Len(text) :
              /\ IsDigit(text[q])
              /\ \A j \in (p + Len(ExperienceLabel))..(q - 1) : IsSpace(text[j])

DocumentsWithDigits == {d \in Documents : HasExperienceDigits(TextOf(d))}
HasDigits(d) == d \in DocumentsWithDigits

\* C2: every record of the record list has a title that is one of the seven
\* category labels or "Unknown", and an experience_years that is present, a
\* non-negative integer, and 0 whenever the document's text has no
\* "experience_years:" followed by digits.
C2_RecordInvariant ==
    \A k \in 1..Len(all_resume_data) :
        LET r == all_resume_data[k]
        IN  /\ r.resume_title \in TitleLabels
            /\ "experience_years" \in DOMAIN r
            /\ r.experience_years \in Nat
            /\ ~HasDigits(uploaded_files[k]) => r.experience_years = 0

\* C2 witness: a finished run with an unreadable document (experience 0, title
\* "Unknown") and a document whose experience is parsed
C2_Witness ==
    /\ RunDone
    /\ \E k \in 1..Len(all_resume_data) :
          /\ Raised(k)
          /\ all_resume_data[k].experience_years = 0
          /\ all_resume_data[k].resume_title = "Unknown"
    /\ \E k \in 1..Len(all_resume_data) :
          /\ HasDigits(uploaded_files[k])
          /\ all_resume_data[k].experience_years > 0

\* C3: a record is in the selected frame iff its title is not "Unknown" and in
\* the rejected frame iff its title is "Unknown"; the frames are disjoint, every
\* record is in exactly one, and their sizes sum to the number of documents.
C3_Partition ==
    Partitioned =>
        /\ \A k \in 1..Len(all_resume_data) :
              /\ k \in Indices(selected_df)
                     <=> all_resume_data[k].resume_title # "Unknown"
              /\ k \in Indices(rejected_df)
                     <=> all_resume_data[k].resume_title = "Unknown"
        /\ Indices(selected_df) \cap Indices(rejected_df) = {}
        /\ Indices(selected_df) \cup Indices(rejected_df) = 1..Len(uploaded_files)
        /\ Cardinality(Indices(selected_df)) = Len(selected_df)
        /\ Cardinality(Indices(rejected_df)) = Len(rejected_df)
        /\ Len(selected_df) + Len(rejected_df) = Len(uploaded_files)
        /\ \A j \in 1..Len(selected_df) :
              selected_df[j].data = all_resume_data[selected_df[j].index]
        /\ \A j \in 1..Len(rejected_df) :
              rejected_df[j].data = all_resume_data[rejected_df[j].index]

\* C3 witness: a partitioned batch of three documents of which exactly one is
\* classified "Unknown"
C3_Witness ==
    /\ Partitioned
    /\ Len(uploaded_files) = 3
    /\ Len(selected_df) = 2
    /\ Len(rejected_df) = 1

\* the documents whose text has been extracted in this run
Extracted ==
    IF pc = "extract" THEN 1..(i - 1)
    ELSE IF pc = "build" THEN 1..i
    ELSE IF AllProcessed THEN 1..Len(uploaded_files)
    ELSE {}

\* the read error is shown for the documents that raised, and for no other
ReportedPerDocument ==
    {shown[j].doc : j \in {n \in 1..Len(shown) : shown[n].kind = "error_reading_pdf"}}
        = {k \in Extracted : Raised(k)}

\* every document gets a record, whatever raised
BatchNotAborted == AllProcessed => Len(all_resume_data) = Len(uploaded_files)

CredentialsMissing == secrets.EMAIL = "" \/ secrets.PASSWORD = ""

\* C5: when the sender address or password is missing the send operation is
\* aborted entirely: nothing is handed to the mail transport and the operation
\* does not go on to process the remaining records one by one.
C5_AbortsEntirely ==
    CredentialsMissing =>
        /\ \A j \in 1..Len(send_log) : ~send_log[j].handed
        /\ Len(send_log) <= 1

\* what is sent to the record of an attempt
ExpectedSubject(frame) ==
    IF frame = "selected" THEN SelectedSubject ELSE RejectedSubject
ExpectedBody(frame, r) ==
    IF frame = "selected"
    THEN <<"Hi ", r.name, ", you've been selected for the role: ", r.resume_title, "!">>
    ELSE <<"Sorry, your profile is not matching this job. We will meet soon.">>

\* C7: one trigger of the dispatch makes exactly one send attempt for each
\* record with a non-empty email and none for a record with an empty email; a
\* matched record is only sent the congratulatory message with its name and
\* title, an unmatched record only the rejection message; each success counter
\* never exceeds the attempts made for its frame.
C7_OneAttemptPerAddress ==
    /\ \A j \in 1..Len(send_log) :
          LET e == send_log[j]
              r == all_resume_data[e.index]
          IN  /\ e.to = r.email
              /\ e.to # <<>>
              /\ e.frame = "selected" <=> r.resume_title # "Unknown"
              /\ e.frame = "rejected" <=> r.resume_title = "Unknown"
              /\ e.subject = ExpectedSubject(e.frame)
              /\ e.body = ExpectedBody(e.frame, r)
    /\ \A j1, j2 \in 1..Len(send_log) :
          send_log[j1].index = send_log[j2].index => j1 = j2
    /\ selected_sent <= Cardinality(Attempts("selected"))
    /\ rejected_sent <= Cardinality(Attempts("rejected"))
    /\ Dispatched => Logged = WithAddress

\* C7 witness: a finished dispatch over two matched records with an address and
\* one matched record without: two attempts, none for the record without
C7_Witness ==
    /\ Dispatched
    /\ Len(selected_df) = 3
    /\ Cardinality(WithAddress) = 2
    /\ Cardinality(Attempts("selected")) = 2
    /\ selected_sent <= 2
    /\ \E k \in 1..Len(all_resume_data) : k \notin WithAddress /\ k \notin Logged

\* C9: the record of a document depends only on its text and file name, not
\* on the documents before it nor on an earlier run, and the record list is
\* rebuilt from empty on every run.
C9_Idempotent ==
    /\ Len(all_resume_data) <= Len(uploaded_files)
    /\ \A j, k \in 1..Len(all_resume_data) :
          (DocText(j) = DocText(k) /\ uploaded_files[j].name = uploaded_files[k].name)
              => all_resume_data[j] = all_resume_data[k]
    /\ runs >= 2 =>
          /\ Len(last_resume_data) = Len(uploaded_files)
          /\ \A k \in 1..Len(all_resume_data) :
                all_resume_data[k] = last_resume_data[k]

\* C9 witness: a second run over a batch that holds the same document twice has
\* rebuilt the list of the first run
C9_Witness ==
    /\ runs = 2
    /\ AllProcessed
    /\ Len(uploaded_files) >= 2
    /\ uploaded_files[1] = uploaded_files[2]
    /\ all_resume_data[1] = all_resume_data[2]
    /\ all_resume_data = last_resume_data

InUploadOrder ==
    /\ pc \in {"extract", "build"} => Len(all_resume_data) = i - 1
    /\ AllProcessed => Len(all_resume_data) = Len(uploaded_files)
    /\ Len(all_resume_data) <= Len(uploaded_files)
    /\ \A k \in 1..Len(all_resume_data) :
          /\ DOMAIN all_resume_data[k] = RecordFields
          /\ all_resume_data[k] = RecordOf(uploaded_files[k])
    /\ (selected_df # <<>> \/ rejected_df # <<>> \/ send_log # <<>>
            \/ pc \in {"send_selected", "send_rejected", "report"})
           => Len(all_resume_data) = Len(uploaded_files)

RecordsKept ==
    pc # "idle" =>
        /\ Len(all_resume_data') \in {Len(all_resume_data), Len(all_resume_data) + 1}
        /\ \A k \in 1..Len(all_resume_data) : all_resume_data'[k] = all_resume_data[k]

\* C10: documents are processed one at a time in upload order: one record per
\* document, the i-th record from the i-th document, complete when the next
\* document is started, never modified once appended; the partition and the
\* dispatch happen only after all documents have been processed.
C10_InUploadOrder == [](InUploadOrder) /\ [][RecordsKept]_vars

\* C10 witness: a finished batch of two different documents
C10_Witness ==
    /\ AllProcessed
    /\ Len(uploaded_files) >= 2
    /\ uploaded_files[1] # uploaded_files[2]
    /\ all_resume_data[1] # all_resume_data[2]

DispatchNeverStops ==
    /\ selected_sent = Cardinality(Succeeded("selected"))
    /\ rejected_sent = Cardinality(Succeeded("rejected"))
    /\ pc = "send_selected" =>
          \A j \in 1..Len(selected_df) :
              (j < row /\ selected_df[j].data.email # <<>>)
                  => selected_df[j].index \in Logged
    /\ pc = "send_rejected" =>
          /\ \A j \in 1..Len(selected_df) :
                selected_df[j].data.email # <<>> => selected_df[j].index \in Logged
          /\ \A j \in 1..Len(rejected_df) :
                (j < row /\ rejected_df[j].data.email # <<>>)
                    => rejected_df[j].index \in Logged
    /\ (pc = "report" \/ Dispatched) => Logged = WithAddress
    /\ Dispatched =>
          shown[Len(shown)] = [kind |-> "success",
                               selected |-> Cardinality(Succeeded("selected")),
                               rejected |-> Cardinality(Succeeded("rejected"))]

\* C6: a failed send never stops the dispatch: every later record with an
\* address, of the selected frame and then of the rejected frame, is still
\* attempted, the failed send is not counted, the reported counts are the
\* numbers of sends that succeeded in each frame, and a started dispatch always
\* reaches its report.
C6_DispatchCompletes ==
    /\ [](DispatchNeverStops)
    /\ (pc = "send_selected") ~> Dispatched

\* C6 witness: a reported dispatch in which a send failed in the transport and a
\* later send succeeded
C6_Witness ==
    /\ Dispatched
    /\ \E j1, j2 \in 1..Len(send_log) :
          /\ j1 < j2
          /\ send_log[j1].handed
          /\ ~send_log[j1].ret
          /\ send_log[j2].ret
====
